---- MODULE Spec2Model ----
(***************************************************************************)
(* In-place iterative radix-2 FFT over a two-adic field                    *)
(* (math/src/fft/fft_iterative.rs): in_place_nr_2radix_fft and             *)
(* in_place_rn_2radix_fft as loop-level state machines, with the naive     *)
(* DFT oracle of the test module.                                          *)
(*                                                                         *)
(* Slices are functions over 0..len-1, so every index below is the index   *)
(* the Rust code uses.  The field, the twiddle generator and the           *)
(* bit-reversal permutation live outside fft_iterative.rs; they are        *)
(* modelled from their documented contract, over a small two-adic prime    *)
(* field standing in for U64TestField.                                     *)
(***************************************************************************)
EXTENDS Integers, FiniteSets, Sequences, TLC

\* ------------------------------------------------------------------ bounds
\* Largest log2 of a valid input length (lengths 1, 2, .., 2^MaxExp).
MaxExp == 3
\* Coefficients of the generated inputs are drawn from 0..MaxVal.
MaxVal == 2
\* Largest input length of the unchecked-precondition runs (any length 0..MaxLen).
MaxLen == 8
\* Largest twiddle length of the unchecked-precondition runs.
MaxTw == 5

\* ------------------------------------------------------------- the field
\* Stand-in for U64TestField: the prime field of order 17, whose
\* multiplicative group has order 2^4.
Modulus == 17
TWO_ADICITY == 4
TWO_ADIC_PRIMITVE_ROOT_OF_UNITY == 3

FE == 0..(Modulus - 1)

add(a, b) == (a + b) % Modulus
sub(a, b) == (a + Modulus - b) % Modulus
mul(a, b) == (a * b) % Modulus

RECURSIVE pow(_, _)
pow(a, e) == IF e = 0 THEN 1 ELSE mul(a, pow(a, e - 1))

RECURSIVE Pow2(_)
Pow2(k) == IF k = 0 THEN 1 ELSE 2 * Pow2(k - 1)

\* slice.len()
len(s) == Cardinality(DOMAIN s)

\* usize::is_power_of_two
is_power_of_two(n) == \E k \in 0..TWO_ADICITY : n = Pow2(k)

\* fft::helpers::log2 of a power of two
log2(n) == CHOOSE k \in 0..TWO_ADICITY : n = Pow2(k)

\* Width of usize arithmetic when overflow checks are off (wrapping).  Any
\* width far above the slice lengths gives the same runs; 16 bits keeps the
\* products inside TLC's integers.
UsizeModulus == Pow2(16)

\* F::get_primitive_root_of_unity(order): a primitive 2^order-th root.
get_primitive_root_of_unity(order) ==
    pow(TWO_ADIC_PRIMITVE_ROOT_OF_UNITY, Pow2(TWO_ADICITY - order))

\* Reversal of the low `bits` bits of i.
RECURSIVE reverse_index(_, _)
reverse_index(i, bits) ==
    IF bits = 0 THEN 0
    ELSE (i % 2) * Pow2(bits - 1) + reverse_index(i \div 2, bits - 1)

\* fft::bit_reversing::in_place_bit_reverse_permute: element i and element
\* reverse(i) (within log2(len) bits) are swapped.
in_place_bit_reverse_permute(s) ==
    IF len(s) <= 1 THEN s
    ELSE [k \in DOMAIN s |-> s[reverse_index(k, log2(len(s)))]]

RootsConfig == {"Natural", "BitReverse"}

\* F::get_powers_of_primitive_root(order, count, config): the first `count`
\* powers of the primitive 2^order-th root, bit-reverse permuted on request.
get_powers_of_primitive_root(order, count, config) ==
    LET root == get_primitive_root_of_unity(order)
        results == [k \in 0..(count - 1) |-> pow(root, k)]
    IN  IF config = "BitReverse" THEN in_place_bit_reverse_permute(results)
        ELSE results

\* F::get_twiddles(order, config): 2^order / 2 twiddle factors.
get_twiddles(order, config) ==
    get_powers_of_primitive_root(order, Pow2(order) \div 2, config)

\* ------------------------------------------------------- the DFT oracle
\* The inner loop of tests::dft from column `col` on, `sum` accumulated so far.
RECURSIVE dft_sum(_, _, _, _, _)
dft_sum(inp, tw, row, col, sum) ==
    IF col = len(inp) THEN sum
    ELSE dft_sum(inp, tw, row, col + 1,
                 add(sum, mul(inp[col], tw[(row * col) % len(inp)])))

\* tests::dft: output[row] = sum over col of input[col] * w^((row*col) mod n)
dft(inp) ==
    LET n == len(inp)
        order == log2(n)
        tw == get_powers_of_primitive_root(order, n, "Natural")
    IN  [row \in 0..(n - 1) |-> dft_sum(inp, tw, row, 0, 0)]

\* ----------------------------------------------------- the code's pieces
\* Variants of the pieces below, each the piece with one plausible slip, used
\* to show that a checked property depends on the piece.
while_cond_ne(gc, n) == gc # n
while_cond_le(gc, n) == gc <= n
next_group_count_add(gc) == gc + 2
butterfly_y1_plus(a, b, tw) == add(a, mul(tw, b))
nr_first_in_next_group_short(g, gs) == g * gs + gs \div 2 - 1
nr_twiddle_index_first(g) == 0
nr_twiddle_index_next(g) == g + 1
nr_partner_adjacent(k, gs) == k + 1
rn_twiddle_index_as_nr(g, gs) == g
rn_partner_far(k, gc) == k + 2 * gc

\* while group_count < input.len()                         (lines 28, 75)
while_cond(gc, n) == gc < n

\* group_count *= 2; group_size /= 2                   (lines 44-45, 89-90)
next_group_count(gc) == gc * 2
next_group_size(gs) == gs \div 2

\* a butterfly: (a, b) -> (a + w*b, a - w*b)          (lines 37-38, 82-83)
butterfly_y0(a, b, tw) == add(a, mul(tw, b))
butterfly_y1(a, b, tw) == sub(a, mul(tw, b))

\* NR: let first_in_group = group * group_size;                  (line 31)
nr_first_in_group(g, gs) == g * gs
\* NR: let first_in_next_group = first_in_group + group_size / 2; (line 32)
nr_first_in_next_group(g, gs) == nr_first_in_group(g, gs) + gs \div 2
\* NR: &twiddles[group]                                          (line 34)
nr_twiddle_index(g) == g
\* NR: input[i + group_size / 2]                             (lines 37-41)
nr_partner(k, gs) == k + gs \div 2

\* RN: let step_to_next = 2 * group_count;                       (line 76)
rn_step_to_next(gc) == 2 * gc
\* RN: &twiddles[group * group_size / 2]                         (line 81)
rn_twiddle_index(g, gs) == (g * gs) \div 2
\* RN: input[i + group_count]                                (lines 82-86)
rn_partner(k, gc) == k + gc

\* ------------------------------------------------------------- the state
VARIABLES
    variant,          \* "nr" | "rn": which transform is running
    config,           \* ordering of the twiddles handed to it
    overflow_checks,  \* build: TRUE panics on usize overflow, FALSE wraps
    coeffs,           \* the caller's coefficients, before any permutation
    input,            \* the slice `input`
    twiddles,         \* the slice `twiddles`
    group_count, group_size, group, i, w, step_to_next, step_to_last,
    pc,               \* "while" | "for_group" | "for_i" | "par" | "done" | "panic"
    err,              \* "none" or the panic message
    input0,           \* history: `input` at the call
    stage_in,         \* history: `input` when the current stage began
    stages,           \* history: completed stages
    butterflies,      \* history: butterflies applied so far
    stage_butterflies,\* history: butterflies applied in the current stage
    tw_reads,         \* history: twiddle indexes read so far
    pending           \* butterflies of the stage not yet applied (unordered runs)

args == <<variant, config, overflow_checks, coeffs, twiddles, input0>>
locals == <<group_count, group_size, group, i, w, step_to_next, step_to_last>>
history == <<stage_in, stages, butterflies, stage_butterflies, tw_reads>>
vars == <<args, locals, history, input, pc, err, pending>>

Variants == {"nr", "rn"}

\* ------------------------------------------------------------ the inputs
\* Coefficient vectors of length n: a at index j plus b at index k, and the
\* dense ramps a*idx + b.
Sparse(n) ==
    { [idx \in 0..(n - 1) |->
          add(IF idx = j THEN a ELSE 0, IF idx = k THEN b ELSE 0)] :
      <<a, b, j, k>> \in (0..MaxVal) \X (0..MaxVal) \X (0..(n - 1)) \X (0..(n - 1)) }
Ramp(n) ==
    { [idx \in 0..(n - 1) |-> add(mul(a, idx % Modulus), b)] :
      <<a, b>> \in (0..MaxVal) \X (0..MaxVal) }
Inputs(n) == IF n = 0 THEN { [idx \in {} |-> 0] } ELSE Sparse(n) \cup Ramp(n)

\* The state at the call fn(&mut inp, &tw): lines 20-21 / 67-68 have run.
Call(var, cfg, oc, v, inp, tw) ==
    /\ variant = var /\ config = cfg /\ overflow_checks = oc
    /\ coeffs = v /\ input = inp /\ twiddles = tw
    /\ group_count = 1 /\ group_size = len(inp)
    /\ group = 0 /\ i = 0 /\ w = 0 /\ step_to_next = 0 /\ step_to_last = 0
    /\ pc = "while" /\ err = "none"
    /\ input0 = inp /\ stage_in = inp
    /\ stages = 0 /\ butterflies = 0 /\ stage_butterflies = 0
    /\ tw_reads = {} /\ pending = {}

\* The calls of the test module: a power-of-two length and twiddles of the
\* matching order; NR on the coefficients, RN on their bit-reversal.  Either
\* twiddle ordering may be handed to either transform.
Init ==
    \E order \in 0..MaxExp, var \in Variants, cfg \in RootsConfig, oc \in BOOLEAN :
      \E v \in Inputs(Pow2(order)) :
        Call(var, cfg, oc, v,
             IF var = "nr" THEN v ELSE in_place_bit_reverse_permute(v),
             get_twiddles(order, cfg))

panic(msg) ==
    /\ pc' = "panic" /\ err' = msg
    /\ UNCHANGED <<args, locals, history, input, pending>>

\* ------------------------------------------------ in_place_nr_2radix_fft
\* line 28: the while test; line 30 starts the group loop.
nr_while ==
    /\ variant = "nr" /\ pc = "while"
    /\ IF while_cond(group_count, len(input))
       THEN /\ pc' = "for_group" /\ group' = 0
            /\ stage_in' = input /\ stage_butterflies' = 0
            /\ UNCHANGED <<group_count, group_size, i, w, step_to_next, step_to_last,
                           stages, butterflies, tw_reads>>
       ELSE /\ pc' = "done"
            /\ UNCHANGED <<locals, history>>
    /\ UNCHANGED <<args, input, err, pending>>

\* lines 30-34: next group, its twiddle; lines 44-45 when the groups are done.
nr_for_group ==
    /\ variant = "nr" /\ pc = "for_group"
    /\ IF group < group_count
       THEN IF nr_twiddle_index(group) \in DOMAIN twiddles
            THEN /\ w' = twiddles[nr_twiddle_index(group)]
                 /\ tw_reads' = tw_reads \cup {nr_twiddle_index(group)}
                 /\ i' = nr_first_in_group(group, group_size)
                 /\ pc' = "for_i"
                 /\ UNCHANGED <<group_count, group_size, group, step_to_next,
                                step_to_last, stage_in, stages, butterflies,
                                stage_butterflies, args, input, err, pending>>
            ELSE panic("index out of bounds: twiddles")
       ELSE /\ group_count' = next_group_count(group_count)
            /\ group_size' = next_group_size(group_size)
            /\ stages' = stages + 1
            /\ pc' = "while"
            /\ UNCHANGED <<group, i, w, step_to_next, step_to_last, stage_in,
                           butterflies, stage_butterflies, tw_reads,
                           args, input, err, pending>>

\* lines 36-42: one butterfly of the group, or the end of the group.
nr_for_i ==
    /\ variant = "nr" /\ pc = "for_i"
    /\ IF i < nr_first_in_next_group(group, group_size)
       THEN IF i \in DOMAIN input /\ nr_partner(i, group_size) \in DOMAIN input
            THEN LET j == nr_partner(i, group_size)
                     y0 == butterfly_y0(input[i], input[j], w)
                     y1 == butterfly_y1(input[i], input[j], w)
                 IN  /\ input' = [input EXCEPT ![i] = y0, ![j] = y1]
                     /\ i' = i + 1
                     /\ butterflies' = butterflies + 1
                     /\ stage_butterflies' = stage_butterflies + 1
                     /\ UNCHANGED <<group_count, group_size, group, w, step_to_next,
                                    step_to_last, stage_in, stages, tw_reads,
                                    args, pc, err, pending>>
            ELSE panic("index out of bounds: input")
       ELSE /\ group' = group + 1
            /\ pc' = "for_group"
            /\ UNCHANGED <<group_count, group_size, i, w, step_to_next, step_to_last,
                           history, args, input, err, pending>>

\* ------------------------------------------------ in_place_rn_2radix_fft
\* RN: let step_to_last = step_to_next * (group_size / 2 - 1);   (line 77)
rn_step_to_last(sn, gs) == sn * (gs \div 2 - 1)

\* usize arithmetic with overflow checks off
usize_wrap(x) == x % UsizeModulus

\* lines 75-77: the while test and the two steps of the stage.  With
\* group_size < 2 the subtraction underflows: a panic when the build checks
\* overflow, a wrapped value when it does not.
rn_while ==
    /\ variant = "rn" /\ pc = "while"
    /\ IF while_cond(group_count, len(input))
       THEN IF group_size \div 2 - 1 < 0 /\ overflow_checks
            THEN panic("attempt to subtract with overflow")
            ELSE /\ step_to_next' = rn_step_to_next(group_count)
                 /\ step_to_last' =
                        usize_wrap(rn_step_to_next(group_count)
                                   * usize_wrap(group_size \div 2 - 1))
                 /\ pc' = "for_group" /\ group' = 0
                 /\ stage_in' = input /\ stage_butterflies' = 0
                 /\ UNCHANGED <<group_count, group_size, i, w, stages, butterflies,
                                tw_reads, args, input, err, pending>>
       ELSE /\ pc' = "done"
            /\ UNCHANGED <<locals, history, args, input, err, pending>>

\* lines 79-80: next group; lines 89-90 when the groups are done.
rn_for_group ==
    /\ variant = "rn" /\ pc = "for_group"
    /\ IF group < group_count
       THEN /\ i' = group
            /\ pc' = "for_i"
            /\ UNCHANGED <<group_count, group_size, group, w, step_to_next,
                           step_to_last, history>>
       ELSE /\ group_count' = next_group_count(group_count)
            /\ group_size' = next_group_size(group_size)
            /\ stages' = stages + 1
            /\ pc' = "while"
            /\ UNCHANGED <<group, i, w, step_to_next, step_to_last, stage_in,
                           butterflies, stage_butterflies, tw_reads>>
    /\ UNCHANGED <<args, input, err, pending>>

\* lines 80-87: one butterfly of the group (i steps by step_to_next up to
\* group + step_to_last), or the end of the group.
rn_for_i ==
    /\ variant = "rn" /\ pc = "for_i"
    /\ IF i <= group + step_to_last
       THEN IF rn_twiddle_index(group, group_size) \notin DOMAIN twiddles
            THEN panic("index out of bounds: twiddles")
            ELSE IF i \in DOMAIN input /\ rn_partner(i, group_count) \in DOMAIN input
            THEN LET j == rn_partner(i, group_count)
                     tw == twiddles[rn_twiddle_index(group, group_size)]
                     y0 == butterfly_y0(input[i], input[j], tw)
                     y1 == butterfly_y1(input[i], input[j], tw)
                 IN  /\ w' = tw
                     /\ tw_reads' = tw_reads \cup {rn_twiddle_index(group, group_size)}
                     /\ input' = [input EXCEPT ![i] = y0, ![j] = y1]
                     /\ i' = i + step_to_next
                     /\ butterflies' = butterflies + 1
                     /\ stage_butterflies' = stage_butterflies + 1
                     /\ UNCHANGED <<group_count, group_size, group, step_to_next,
                                    step_to_last, stage_in, stages,
                                    args, pc, err, pending>>
            ELSE panic("index out of bounds: input")
       ELSE /\ group' = group + 1
            /\ pc' = "for_group"
            /\ UNCHANGED <<group_count, group_size, i, w, step_to_next, step_to_last,
                           history, args, input, err, pending>>

Next ==
    \/ nr_while \/ nr_for_group \/ nr_for_i
    \/ rn_while \/ rn_for_group \/ rn_for_i

Spec == Init /\ [][Next]_vars

\* ------------------------------------------- calls without the preconditions
\* Any input length 0..MaxLen with any twiddle length 0..MaxTw: the functions
\* take two slices and check nothing about them.
InitErr ==
    \E n \in 0..MaxLen, tl \in 0..MaxTw, var \in Variants, oc \in BOOLEAN :
      \E v \in Inputs(n) :
        Call(var, "Natural", oc, v, v,
             get_powers_of_primitive_root(TWO_ADICITY, tl, "Natural"))

SpecErr == InitErr /\ [][Next]_vars

\* ------------------------------------------ a stage in any butterfly order
\* The k-th butterfly of a stage in loop order (k counts the iterations of the
\* two nested for loops): the two input indexes and the twiddle index.
nr_butterfly_at(k, gc, gs) ==
    LET g == k \div (gs \div 2)
        idx == nr_first_in_group(g, gs) + (k % (gs \div 2))
    IN  [a |-> idx, b |-> nr_partner(idx, gs), t |-> nr_twiddle_index(g)]
rn_butterfly_at(k, gc, gs) ==
    LET g == k \div (gs \div 2)
        idx == g + (k % (gs \div 2)) * rn_step_to_next(gc)
    IN  [a |-> idx, b |-> rn_partner(idx, gc), t |-> rn_twiddle_index(g, gs)]
butterfly_at(var, k, gc, gs) ==
    IF var = "nr" THEN nr_butterfly_at(k, gc, gs) ELSE rn_butterfly_at(k, gc, gs)

\* Iterations of the two nested loops in one stage.
stage_len(gc, gs) == gc * (gs \div 2)

apply_butterfly(inp, tws, bf) ==
    [inp EXCEPT ![bf.a] = butterfly_y0(inp[bf.a], inp[bf.b], tws[bf.t]),
                ![bf.b] = butterfly_y1(inp[bf.a], inp[bf.b], tws[bf.t])]

\* The stage run in loop order from its k-th butterfly on.
RECURSIVE run_stage(_, _, _, _, _, _)
run_stage(inp, tws, var, gc, gs, k) ==
    IF k >= stage_len(gc, gs) THEN inp
    ELSE run_stage(apply_butterfly(inp, tws, butterfly_at(var, k, gc, gs)),
                   tws, var, gc, gs, k + 1)

InitPar ==
    \E order \in 0..MaxExp, var \in Variants :
      \E v \in Ramp(Pow2(order)) :
        Call(var, IF var = "nr" THEN "BitReverse" ELSE "Natural", TRUE, v,
             IF var = "nr" THEN v ELSE in_place_bit_reverse_permute(v),
             get_twiddles(order, IF var = "nr" THEN "BitReverse" ELSE "Natural"))

par_stage_begin ==
    /\ pc = "while"
    /\ IF while_cond(group_count, len(input))
       THEN /\ pc' = "par"
            /\ pending' = 0..(stage_len(group_count, group_size) - 1)
            /\ stage_in' = input /\ stage_butterflies' = 0
            /\ UNCHANGED <<stages, butterflies, tw_reads>>
       ELSE /\ pc' = "done"
            /\ UNCHANGED <<pending, history>>
    /\ UNCHANGED <<args, locals, input, err>>

par_butterfly ==
    /\ pc = "par"
    /\ \E k \in pending :
         LET bf == butterfly_at(variant, k, group_count, group_size)
         IN  /\ input' = apply_butterfly(input, twiddles, bf)
             /\ tw_reads' = tw_reads \cup {bf.t}
             /\ pending' = pending \ {k}
    /\ butterflies' = butterflies + 1
    /\ stage_butterflies' = stage_butterflies + 1
    /\ UNCHANGED <<args, locals, stage_in, stages, pc, err>>

par_stage_end ==
    /\ pc = "par" /\ pending = {}
    /\ group_count' = next_group_count(group_count)
    /\ group_size' = next_group_size(group_size)
    /\ stages' = stages + 1
    /\ pc' = "while"
    /\ UNCHANGED <<args, group, i, w, step_to_next, step_to_last, stage_in,
                   butterflies, stage_butterflies, tw_reads, input, err, pending>>

NextPar == par_stage_begin \/ par_butterfly \/ par_stage_end

SpecPar == InitPar /\ [][NextPar]_vars

\* The loop-order stage operator agrees with the stepwise loops: when a
\* stage's group loop is exhausted, `input` is run_stage of the stage's input.
StageMatchesLoops ==
    (pc = "for_group" /\ group = group_count)
        => input = run_stage(stage_in, twiddles, variant, group_count, group_size, 0)

\* ================================================================ claims
n_in == len(input0)
terminated == pc \in {"done", "panic"}
\* The transform's output in natural order: NR's output is bit-reversed and
\* the caller permutes it (line 134); RN's is natural already.
natural_output ==
    IF variant = "nr" THEN in_place_bit_reverse_permute(input) ELSE input
expected_config == IF variant = "nr" THEN "BitReverse" ELSE "Natural"

\* C1: for n = 2^k, k >= 1, NR with the bit-reversed twiddles followed by the
\* bit-reversal permutation is the naive DFT of the input.
C1_NRMatchesNaive ==
    (variant = "nr" /\ config = "BitReverse" /\ pc = "done" /\ n_in >= 2)
        => in_place_bit_reverse_permute(input) = dft(coeffs)
C1_Witness ==
    /\ variant = "nr" /\ config = "BitReverse" /\ pc = "done"
    /\ n_in = 8 /\ coeffs[1] # 0 /\ input # input0
    /\ in_place_bit_reverse_permute(input) = dft(coeffs)

\* C2: for n = 2^k, k >= 1, RN on the bit-reversed input with the natural
\* twiddles is the naive DFT of the input, in natural order.
C2_RNMatchesNaive ==
    (variant = "rn" /\ config = "Natural" /\ pc = "done" /\ n_in >= 2)
        => input = dft(coeffs)
C2_Witness ==
    /\ variant = "rn" /\ config = "Natural" /\ pc = "done"
    /\ n_in = 8 /\ coeffs[1] # 0 /\ input0 = in_place_bit_reverse_permute(coeffs)
    /\ input0 # coeffs /\ input = dft(coeffs)

\* C3 as stated: a call with a length that is zero or no power of two leaves
\* the input as it was (the failure being detected before any mutation).
C3_Original ==
    (terminated /\ ~(n_in >= 1 /\ is_power_of_two(n_in))) => input = input0
\* C3 amended: the length is never checked.  Length zero returns normally,
\* zero stages, nothing read or written.  A length >= 3 that is no power of
\* two, with at least one twiddle, has had butterflies written into the input
\* by the time the call ends, which it does by returning normally or by a
\* panic (index out of bounds, or the overflow of group_size / 2 - 1 in RN).
C3_Amended ==
    /\ err \in {"none", "index out of bounds: twiddles",
                "index out of bounds: input", "attempt to subtract with overflow"}
    /\ n_in = 0 => /\ pc \in {"while", "done"} /\ err = "none"
                   /\ input = input0 /\ butterflies = 0 /\ tw_reads = {}
    /\ (terminated /\ n_in >= 3 /\ ~is_power_of_two(n_in) /\ len(twiddles) >= 1)
          => butterflies >= 1
C3_Witness ==
    /\ n_in = 3 /\ pc = "panic" /\ butterflies >= 1 /\ input # input0

\* C4 as stated (for n >= 2): a twiddle length other than input.len() / 2 is
\* reported before any mutation, and a longer one is not accepted.
C4_Original ==
    (terminated /\ n_in >= 2 /\ is_power_of_two(n_in)
        /\ len(twiddles) # n_in \div 2)
        => (pc = "panic" /\ input = input0)
\* C4 amended: the twiddle length is never compared with input.len() / 2.
\* For a power-of-two length, longer twiddles are accepted silently: the call
\* returns normally having read only indexes below n/2.  Shorter twiddles end
\* the call with an index-out-of-bounds panic at the first missing twiddle,
\* which, when there is at least one twiddle, comes after the whole first
\* stage (n/2 butterflies) has been written into the input.
C4_Amended ==
    (n_in >= 1 /\ is_power_of_two(n_in)) =>
        /\ len(twiddles) > n_in \div 2 =>
              /\ pc # "panic" /\ err = "none"
              /\ tw_reads \subseteq 0..(n_in \div 2 - 1)
        /\ len(twiddles) < n_in \div 2 =>
              /\ pc # "done"
              /\ pc = "panic" =>
                    /\ err = "index out of bounds: twiddles"
                    /\ len(twiddles) >= 1 => butterflies >= n_in \div 2
C4_Witness ==
    /\ n_in = 4 /\ len(twiddles) = 1 /\ pc = "panic"
    /\ stages = 1 /\ butterflies = 3 /\ input # input0

only_nonzero_at(v, idx) ==
    \A k \in DOMAIN v : (v[k] # 0) <=> (k = idx)

\* C5 as stated: with the twiddles in the other ordering the output is never
\* the DFT of the input (here already for the inputs the tests generate,
\* those without a zero coefficient).
C5_Original ==
    (pc = "done" /\ n_in >= 2 /\ config # expected_config
        /\ \A k \in DOMAIN coeffs : coeffs[k] # 0)
        => natural_output # dft(coeffs)
\* C5 amended: for n = 2 and n = 4 the two orderings are the same sequence and
\* the output is the DFT; for n >= 8 the output differs from the DFT for some
\* inputs (every input whose only nonzero coefficient is at index 1), while for
\* others (only coefficient 0 nonzero, the zero vector) it is still the DFT.
C5_Amended ==
    (pc = "done" /\ n_in >= 2 /\ config # expected_config) =>
        /\ n_in <= 4 => /\ twiddles = get_twiddles(log2(n_in), expected_config)
                        /\ natural_output = dft(coeffs)
        /\ (n_in >= 8 /\ only_nonzero_at(coeffs, 1)) => natural_output # dft(coeffs)
        /\ (\A k \in DOMAIN coeffs : k # 0 => coeffs[k] = 0)
              => natural_output = dft(coeffs)
C5_Witness ==
    /\ pc = "done" /\ n_in = 8 /\ config # expected_config
    /\ only_nonzero_at(coeffs, 1) /\ natural_output # dft(coeffs)

\* C6: with n = 1 and no twiddles both transforms run zero stages, read no
\* twiddle and leave the element as it was.
C6_LengthOne ==
    n_in = 1 =>
        /\ pc \in {"while", "done"} /\ err = "none"
        /\ twiddles = << >>
        /\ stages = 0 /\ butterflies = 0 /\ tw_reads = {}
        /\ input = input0
C6_Witness ==
    n_in = 1 /\ pc = "done" /\ input[0] # 0 /\ input = input0 /\ stages = 0

\* C7: group_count starts at 1 and doubles, group_size starts at n and
\* halves, group_count * group_size = n at every stage boundary, and the loop
\* exits exactly when group_count = n and group_size = 1, after log2(n) stages.
C7_StageInvariant ==
    /\ group_count * group_size = n_in
    /\ pc \in {"while", "done"} =>
          /\ group_count = Pow2(stages)
          /\ group_size * Pow2(stages) = n_in
    /\ pc = "while" => (~while_cond(group_count, len(input)) <=> group_count = n_in)
    /\ pc = "done" => /\ group_count = n_in /\ group_size = 1
                      /\ stages = log2(n_in)
C7_Witness ==
    pc = "done" /\ n_in = 8 /\ stages = 3 /\ group_count = 8 /\ group_size = 1

\* C8: a complete run applies exactly n/2 butterflies in each of its log2(n)
\* stages, (n/2) * log2(n) in total.
C8_ButterflyCount ==
    /\ pc \in {"while", "done"} => butterflies = stages * (n_in \div 2)
    /\ (pc = "for_group" /\ group = group_count) => stage_butterflies = n_in \div 2
    /\ pc = "done" => butterflies = (n_in \div 2) * log2(n_in)
C8_Witness ==
    pc = "done" /\ n_in = 8 /\ butterflies = 12 /\ stages = 3

\* C9: the index pairs of a stage's butterflies are pairwise disjoint and
\* cover 0..n-1, so the stage's butterflies applied in any order leave the
\* input the loop order leaves.
stage_pairs ==
    [k \in 0..(stage_len(group_count, group_size) - 1) |->
        LET bf == butterfly_at(variant, k, group_count, group_size)
        IN  {bf.a, bf.b}]
C9_StageOrderFree ==
    pc = "par" =>
        /\ \A k \in DOMAIN stage_pairs : Cardinality(stage_pairs[k]) = 2
        /\ \A k1, k2 \in DOMAIN stage_pairs :
              k1 # k2 => stage_pairs[k1] \cap stage_pairs[k2] = {}
        /\ UNION {stage_pairs[k] : k \in DOMAIN stage_pairs} = DOMAIN input
        /\ pending = {} =>
              input = run_stage(stage_in, twiddles, variant,
                                group_count, group_size, 0)
C9_Witness ==
    /\ pc = "par" /\ pending = {} /\ n_in = 8 /\ stages = 1
    /\ input # stage_in
    /\ input = run_stage(stage_in, twiddles, variant, group_count, group_size, 0)

\* C10: under the preconditions no index is out of bounds and nothing
\* underflows: input indexes < n, twiddle indexes < n/2, and RN never
\* evaluates group_size / 2 - 1 with group_size < 2.
C10_InBounds ==
    /\ pc # "panic" /\ err = "none"
    /\ tw_reads \subseteq 0..(n_in \div 2 - 1)
    /\ (variant = "nr" /\ pc = "for_i") => nr_twiddle_index(group) < n_in \div 2
    /\ (variant = "nr" /\ pc = "for_i"
            /\ i < nr_first_in_next_group(group, group_size))
          => (i < n_in /\ nr_partner(i, group_size) < n_in)
    /\ (variant = "rn" /\ pc = "for_i" /\ i <= group + step_to_last)
          => /\ i < n_in /\ rn_partner(i, group_count) < n_in
             /\ rn_twiddle_index(group, group_size) < n_in \div 2
    /\ (variant = "rn" /\ pc \in {"for_group", "for_i"})
          => /\ group_size >= 2
             /\ step_to_last = rn_step_to_last(step_to_next, group_size)
C10_Witness ==
    /\ variant = "rn" /\ pc = "for_i" /\ n_in = 8 /\ group_size = 2
    /\ group = 3 /\ i = 3 /\ rn_partner(i, group_count) = 7
    /\ rn_twiddle_index(group, group_size) = 3

====
